---- MODULE Spec2Model ----
(***************************************************************************)
(* The background job processor of 100y-saas (internal/jobs/jobs.go) over  *)
(* the jobs table of internal/db/schema.sql, stored in SQLite; its         *)
(* lifecycle (Start, Stop, the poll and the maintenance goroutine); the    *)
(* sessions of internal/auth and the usage events its cleanup jobs delete. *)
(*                                                                         *)
(* Time is counted in minutes.  `now` is the UTC clock.  A DATETIME column *)
(* holds text: CURRENT_TIMESTAMP writes the UTC wall clock, a time.Time    *)
(* parameter is written by the driver as the LOCAL wall clock followed by  *)
(* a fraction and a zone suffix.  SQLite compares and orders the two as    *)
(* text.                                                                   *)
(***************************************************************************)
EXTENDS Integers, Sequences, FiniteSets, TLC

\* ------------------------------------------------------------------ bounds
MaxJobs == 2
\* number of logins
MaxSessions == 2
\* number of usage events tracked
MaxEvents == 2
\* number of GenerateToken calls
MaxTokens == 2
\* number of Allow calls per key that return true
MaxCalls == 4

\* --------------------------------------------------------- program constants
DefaultMaxAttempts == 3
backoffMinutes == <<1, 5, 30>>
LongBackoff == 30
\* minutes in the 90 days usage events are kept
RetentionMinutes == 129600
\* minutes a session lives (24 hours)
SessionMinutes == 1440

\* ------------------------------------------------------------ input domains
Loops == {1, 2}
\* job types, named after what the handler registered for them does
JobTypes == {"ok", "bad", "none"}
Delays == {2}
\* offset of the host's local zone from UTC, in minutes
TZOffsets == {-60, 0, 60}
RowTypes == {"bad"}
\* max_attempts of rows written to the table directly
MaxAttemptsChoices == {5}
\* the instants at which the system is observed: the start, and the first
\* minute at which a job retried at the previous instant is ready again
Instants == {0, 2, 8}
Payloads == {"null"}
\* user ids of the registered, active users
Users == {1, 2}
\* the instants at which the sessions are observed: a login, shortly before
\* and after its expiry, and after the expiry of a later login
SessionInstants == {0, 1410, 1470, 2900}
\* the instants at which the usage events are observed: two within an hour,
\* 90 days after the first, between the two 90-day marks, and much later
UsageInstants == {0, 60, 129600, 129630, 259300}
\* the job types of the maintenance loop, and their built-in handlers
CleanupTypes == {"cleanup_sessions", "cleanup_usage_events"}
AllTypes == JobTypes \cup CleanupTypes

Null == "NULL"
NotNull == "SET"
HandlerError == "handler error"

VARIABLES
  jobs,      \* the jobs table: a sequence of rows, row i has id i
  now,       \* UTC clock
  tz,        \* zone offset of the host
  handlers,  \* jp.handlers: job type -> what the handler returns, or "absent"
  loop,      \* per poll loop: position in processNextJob and its locals
  leases,    \* history: per job, number of pending->running flips
  runs,      \* history: per job, number of handler invocations
  running,   \* jp.running
  maint,     \* per maintenance goroutine: position in scheduleCleanupJobs
  registered,\* history: per job type, the handler of the latest RegisterHandler
  sessions,  \* the sessions table: a set of rows
  events,    \* the usage_events table: row i has id i, a deleted row is kept
             \* with present = FALSE
  issued,    \* history: the Session each Login returned; token i is issued[i]
  revoked,   \* history: the issued tokens for which Logout returned nil
  last,      \* history: the latest AuthService call and what it returned
  csrfTokens,\* c.tokens of CSRFProtection: the stored entries token -> expiry
  minted,    \* history: the instant of each GenerateToken; token i is call i
  req,       \* per request goroutine: position in ConsumeToken and its token
  consumed,  \* history: per token, number of ConsumeToken calls that returned true
  limiter,   \* the RateLimiter: rl.rate (0 before NewRateLimiter) and rl.buckets
  allowed,   \* history: per key, the instants of the Allow calls that returned true
  tenant,    \* a tenant: max_users of its active subscription and its tenant_users rows
  adder      \* per AddUserToTenant call in progress: position and user

\* the state of the processor's lifecycle and of the other tables
ext == <<running, maint, registered, sessions, events, issued, revoked, last>>

\* the state of the HTTP middleware and of the tenant service
web == <<csrfTokens, minted, req, consumed, limiter, allowed, tenant, adder>>

vars == <<jobs, now, tz, handlers, loop, leases, runs, ext, web>>

\* ------------------------------------------------------------- timestamps
\* a stored DATETIME text: wall clock reading, and whether the Go driver
\* wrote it (longer text: fraction and zone suffix after the seconds)
SqlStamp(t) == [wall |-> t, go |-> FALSE]
GoStamp(t) == [wall |-> t + tz, go |-> TRUE]

\* CURRENT_TIMESTAMP
CurrentTimestamp == SqlStamp(now)

\* position of a stamp in SQLite's text order: equal wall clocks order the
\* shorter CURRENT_TIMESTAMP text before the longer driver text
TextKey(s) == 2 * s.wall + (IF s.go THEN 1 ELSE 0)

TextLE(a, b) == TextKey(a) <= TextKey(b)

\* ------------------------------------------------------------------- rows
Ids == 1..Len(jobs)

NewJob(type, payload, max, sched) ==
  [type |-> type, payload |-> payload, status |-> "pending", attempts |-> 0,
   max_attempts |-> max, scheduled_at |-> sched, started_at |-> Null,
   completed_at |-> Null, error |-> Null]

Idle == [pc |-> "wait", id |-> 0, type |-> "", attempts |-> 0, max |-> 0,
         err |-> "", rd |-> 0]

\* a goroutine that has returned, or was never started
Exited == [Idle EXCEPT !.pc = "off"]

\* for jp.running { select { case <-ticker.C: ... } }: the flag is read when
\* the tick's work has returned, then the loop blocks on the ticker
LoopHead == IF running THEN Idle ELSE Exited

\* mutant: the SELECT runs outside the transaction, its read lock is gone
\* when the statement ends
HoldsSharedDropped(l) == FALSE

\* SQLite locks a connection holds inside its transaction
HoldsShared(l) == loop[l].pc \in {"selected", "updated"}
HoldsReserved(l) == loop[l].pc = "updated"

\* an autocommit write needs the exclusive lock: no reader, no writer
CanWrite(l) == \A m \in Loops \ {l} : ~HoldsShared(m)

\* what Start does to jp.handlers: the two built-in handlers are registered
BuiltIn(t) == IF t = "cleanup_sessions" THEN "sessions" ELSE "usage"

WithBuiltIns(h) == [t \in AllTypes |-> IF t \in CleanupTypes THEN BuiltIn(t) ELSE h[t]]

\* handlers registered by the caller before Start, named after the job types
CallerHandlers ==
  [t \in AllTypes |-> IF t = "ok" THEN "nil"
                      ELSE IF t = "bad" THEN "error" ELSE "absent"]

NoCall == [op |-> "none", token |-> 0, res |-> "none"]

\* empty sessions and usage_events tables, no AuthService call made
TablesInit ==
  /\ sessions = {}
  /\ events = <<>>
  /\ issued = <<>>
  /\ revoked = {}
  /\ last = NoCall

\* the goroutines that make a call at the same time
Callers == {1, 2}
\* the rate limiter keys (IPBasedKey, UserBasedKey)
Keys == {"ip:10.0.0.1", "user:1"}

NoRequest == [pc |-> "idle", token |-> 0]
\* a key without an entry in rl.buckets
NoBucket == [present |-> FALSE, tokens |-> 0, lastRefill |-> 0]
\* no limiter constructed yet: rate 0
NoLimiter == [rate |-> 0, buckets |-> [k \in Keys |-> NoBucket]]
\* no tenant created yet
NoTenant == [present |-> FALSE, max_users |-> 0, users |-> {}]
NoAdd == [pc |-> "idle", user |-> 0]

\* no CSRF token stored, no rate limiter and no tenant created, no call
\* in progress
WebInit ==
  /\ csrfTokens = {}
  /\ minted = <<>>
  /\ req = [r \in Callers |-> NoRequest]
  /\ consumed = <<>>
  /\ limiter = NoLimiter
  /\ allowed = [k \in Keys |-> <<>>]
  /\ tenant = NoTenant
  /\ adder = [a \in Callers |-> NoAdd]

\* a processor after Start, its poll loop blocked on the ticker; the jobs of
\* the maintenance loop are left out
Init ==
  /\ jobs = <<>>
  /\ now = 0
  /\ tz \in TZOffsets
  /\ handlers = WithBuiltIns(CallerHandlers)
  /\ loop = [l \in Loops |-> IF l = 1 THEN Idle ELSE Exited]
  /\ leases = <<>>
  /\ runs = <<>>
  /\ running = TRUE
  /\ maint = [m \in Loops |-> "off"]
  /\ registered = handlers
  /\ TablesInit
  /\ WebInit

Advance ==
  /\ \E t \in Instants : t > now /\ now' = t
  /\ UNCHANGED <<jobs, tz, handlers, loop, leases, runs, ext, web>>

Insert(row) ==
  /\ Len(jobs) < MaxJobs
  /\ CanWrite(0)
  /\ jobs' = Append(jobs, row)
  /\ leases' = Append(leases, 0)
  /\ runs' = Append(runs, 0)
  /\ UNCHANGED <<now, tz, handlers, loop, ext, web>>

EnqueueJob ==
  \E t \in JobTypes, p \in Payloads :
    Insert(NewJob(t, p, DefaultMaxAttempts, CurrentTimestamp))

EnqueueDelayedJob ==
  \E t \in JobTypes, p \in Payloads, d \in Delays :
    Insert(NewJob(t, p, DefaultMaxAttempts, GoStamp(now + d)))

\* a row written by INSERT INTO jobs with an explicit max_attempts
InsertRow ==
  \E t \in RowTypes, p \in Payloads, m \in MaxAttemptsChoices :
    Insert(NewJob(t, p, m, CurrentTimestamp))

\* mutant: rows left in status running are picked up again
ReadyOrRunning == {j \in Ids : /\ jobs[j].status \in {"pending", "running"}
                               /\ TextLE(jobs[j].scheduled_at, CurrentTimestamp)}

\* mutant: the comparison with CURRENT_TIMESTAMP is turned around
ReadyReversed == {j \in Ids : /\ jobs[j].status = "pending"
                              /\ ~TextLE(jobs[j].scheduled_at, CurrentTimestamp)}

\* WHERE status = 'pending' AND scheduled_at <= CURRENT_TIMESTAMP
Ready == {j \in Ids : /\ jobs[j].status = "pending"
                      /\ TextLE(jobs[j].scheduled_at, CurrentTimestamp)}

\* ORDER BY scheduled_at ASC LIMIT 1: SQLite walks idx_jobs_status_scheduled,
\* where rows of equal scheduled_at follow each other in rowid order
RowBefore(j, k) ==
  \/ TextKey(jobs[j].scheduled_at) < TextKey(jobs[k].scheduled_at)
  \/ /\ TextKey(jobs[j].scheduled_at) = TextKey(jobs[k].scheduled_at)
     /\ j <= k

FirstReady == {j \in Ready : \A k \in Ready : RowBefore(j, k)}

\* a tick of the poll loop: tx.Begin and the SELECT (takes the shared lock);
\* sql.ErrNoRows, like an error of either call, ends the tick with nothing
\* changed
BeginSelect(l) ==
  /\ loop[l].pc = "wait"
  /\ IF Ready = {}
       THEN loop' = [loop EXCEPT ![l] = LoopHead]
       ELSE \E j \in FirstReady :
              loop' = [loop EXCEPT ![l] =
                         [pc |-> "selected", id |-> j, type |-> jobs[j].type,
                          attempts |-> jobs[j].attempts,
                          max |-> jobs[j].max_attempts, err |-> "", rd |-> 0]]
  /\ UNCHANGED <<jobs, now, tz, handlers, leases, runs, ext, web>>

\* the UPDATE inside the transaction: takes the reserved lock, which one
\* connection at a time can hold
CanReserve(l) == \A m \in Loops \ {l} : ~HoldsReserved(m)

MarkRunning(l) ==
  /\ loop[l].pc = "selected"
  /\ CanReserve(l)
  /\ loop' = [loop EXCEPT ![l].pc = "updated"]
  /\ UNCHANGED <<jobs, now, tz, handlers, leases, runs, ext, web>>

\* the row after "SET status = 'running', started_at = ?, attempts = attempts + 1"
RunningRow(row) ==
  [row EXCEPT !.status = "running", !.started_at = NotNull,
              !.attempts = row.attempts + 1]

\* tx.Commit: needs the exclusive lock, so no other connection may be reading
CanCommit(l) == \A m \in Loops \ {l} : ~HoldsShared(m)

TxCommit(l) ==
  /\ loop[l].pc = "updated"
  /\ CanCommit(l)
  /\ LET j == loop[l].id IN
       /\ jobs' = [jobs EXCEPT ![j] = RunningRow(jobs[j])]
       /\ leases' = [leases EXCEPT
                       ![j] = @ + (IF jobs[j].status = "pending" THEN 1 ELSE 0)]
  /\ loop' = [loop EXCEPT ![l].pc = "leased"]
  /\ UNCHANGED <<now, tz, handlers, runs, ext, web>>

NoHandlerMessage(type) == "no handler registered for job type: " \o type

\* mutant: a missing handler is treated like a handler error
NoHandlerAsError(l) ==
  /\ loop[l].pc = "leased"
  /\ handlers[loop[l].type] = "absent"
  /\ loop' = [loop EXCEPT
                ![l].pc = IF loop[l].attempts + 1 >= loop[l].max THEN "fail" ELSE "retry",
                ![l].attempts = loop[l].attempts + 1,
                ![l].err = "no handler registered for job type: " \o loop[l].type]
  /\ UNCHANGED <<jobs, now, tz, handlers, leases, runs, ext, web>>

\* handler lookup finds nothing: markJobFailed is next
NoHandler(l) ==
  /\ loop[l].pc = "leased"
  /\ handlers[loop[l].type] = "absent"
  /\ loop' = [loop EXCEPT ![l].pc = "fail",
                          ![l].err = NoHandlerMessage(loop[l].type)]
  /\ UNCHANGED <<jobs, now, tz, handlers, leases, runs, ext, web>>

\* mutant: > where the code has >=
AfterErrorStrict(attempts, max) == IF attempts + 1 > max THEN "fail" ELSE "retry"

\* what follows a handler error: job.Attempts++ and the comparison with
\* job.MaxAttempts
AfterError(attempts, max) == IF attempts + 1 >= max THEN "fail" ELSE "retry"

\* DELETE FROM sessions WHERE expires_at < CURRENT_TIMESTAMP: the rows left
SessionsAfterCleanup ==
  {s \in sessions : ~(TextKey(s.expires_at) < TextKey(CurrentTimestamp))}

\* mutant: the limit is a time.Time computed by the program and bound as a
\* parameter
RetentionLimitBound == GoStamp(now - RetentionMinutes)

\* datetime('now', '-90 days')
RetentionLimit == SqlStamp(now - RetentionMinutes)

\* DELETE FROM usage_events WHERE created_at < datetime('now', '-90 days')
\* run on table evs: the table afterwards
CleanupUsage(evs) ==
  [i \in DOMAIN evs |->
     IF TextKey(evs[i].created_at) < TextKey(RetentionLimit)
       THEN [evs[i] EXCEPT !.present = FALSE]
       ELSE evs[i]]

EventsAfterCleanup == CleanupUsage(events)

\* handler(job.Payload) returns: nil or an error; the built-in handlers
\* run their DELETE and return nil
Invoke(l) ==
  /\ loop[l].pc = "leased"
  /\ handlers[loop[l].type] \notin {"absent", "panic"}
  /\ runs' = [runs EXCEPT ![loop[l].id] = @ + 1]
  /\ IF handlers[loop[l].type] = "error"
       THEN loop' = [loop EXCEPT
                       ![l].pc = AfterError(loop[l].attempts, loop[l].max),
                       ![l].attempts = loop[l].attempts + 1,
                       ![l].err = HandlerError]
       ELSE loop' = [loop EXCEPT ![l].pc = "complete"]
  /\ sessions' = IF handlers[loop[l].type] = "sessions"
                   THEN SessionsAfterCleanup ELSE sessions
  /\ events' = IF handlers[loop[l].type] = "usage"
                 THEN EventsAfterCleanup ELSE events
  /\ UNCHANGED <<jobs, now, tz, handlers, leases, running, maint, registered,
                 issued, revoked, last, web>>

\* mutant: the completing UPDATE also clears started_at
CompletedRowClearsStart(row) ==
  [row EXCEPT !.status = "completed", !.completed_at = NotNull,
              !.started_at = Null]

CompletedRow(row) == [row EXCEPT !.status = "completed", !.completed_at = NotNull]

markJobCompleted(l) ==
  /\ loop[l].pc = "complete"
  /\ CanWrite(l)
  /\ jobs' = [jobs EXCEPT ![loop[l].id] = CompletedRow(jobs[loop[l].id])]
  /\ loop' = [loop EXCEPT ![l] = LoopHead]
  /\ UNCHANGED <<now, tz, handlers, leases, runs, ext, web>>

\* mutant: the failing UPDATE leaves completed_at alone
FailedRowNoStamp(row, msg) ==
  [row EXCEPT !.status = "failed", !.error = msg]

FailedRow(row, msg) ==
  [row EXCEPT !.status = "failed", !.completed_at = NotNull, !.error = msg]

markJobFailed(l) ==
  /\ loop[l].pc = "fail"
  /\ CanWrite(l)
  /\ jobs' = [jobs EXCEPT ![loop[l].id] = FailedRow(jobs[loop[l].id], loop[l].err)]
  /\ loop' = [loop EXCEPT ![l] = LoopHead]
  /\ UNCHANGED <<now, tz, handlers, leases, runs, ext, web>>

\* retryJob, first statement: SELECT attempts FROM jobs WHERE id = ?
RetryRead(l) ==
  /\ loop[l].pc = "retry"
  /\ loop' = [loop EXCEPT ![l].pc = "reschedule",
                          ![l].rd = jobs[loop[l].id].attempts]
  /\ UNCHANGED <<jobs, now, tz, handlers, leases, runs, ext, web>>

\* mutant: the slice is indexed with attempts instead of attempts-1
BackoffOffByOne(attempts) ==
  IF attempts < Len(backoffMinutes)
    THEN backoffMinutes[attempts + 1]
    ELSE LongBackoff

\* the delay retryJob computes from the attempts it read (Go indexes
\* backoffMinutes from 0, a sequence starts at 1)
Backoff(attempts) ==
  IF attempts <= Len(backoffMinutes)
    THEN backoffMinutes[(attempts - 1) + 1]
    ELSE LongBackoff

\* mutant: the retry UPDATE also resets attempts
RetriedRowResetsAttempts(row, sched, msg) ==
  [row EXCEPT !.status = "pending", !.scheduled_at = sched, !.error = msg,
              !.attempts = 0]

RetriedRow(row, sched, msg) ==
  [row EXCEPT !.status = "pending", !.scheduled_at = sched, !.error = msg]

\* retryJob, the UPDATE with scheduledAt := time.Now().Add(delay)
RetryUpdate(l) ==
  /\ loop[l].pc = "reschedule"
  /\ CanWrite(l)
  /\ jobs' = [jobs EXCEPT ![loop[l].id] =
                RetriedRow(jobs[loop[l].id],
                           GoStamp(now + Backoff(loop[l].rd)), loop[l].err)]
  /\ loop' = [loop EXCEPT ![l] = LoopHead]
  /\ UNCHANGED <<now, tz, handlers, leases, runs, ext, web>>

\* the lease UPDATE or the commit returns an error (SQLITE_BUSY included):
\* logged, the deferred tx.Rollback releases the locks, the tick ends
LeaseError(l) ==
  /\ loop[l].pc \in {"selected", "updated"}
  /\ loop' = [loop EXCEPT ![l] = LoopHead]
  /\ UNCHANGED <<jobs, now, tz, handlers, leases, runs, ext, web>>

\* the UPDATE of markJobCompleted, markJobFailed or retryJob returns an
\* error: logged, the tick ends, the row is left as it was
MarkError(l) ==
  /\ loop[l].pc \in {"complete", "fail", "reschedule"}
  /\ loop' = [loop EXCEPT ![l] = LoopHead]
  /\ UNCHANGED <<jobs, now, tz, handlers, leases, runs, ext, web>>

\* the attempts read of retryJob fails: Scan's error is dropped, attempts
\* stays 0 and backoffMinutes[attempts-1] panics in the poll goroutine
RetryReadError(l) ==
  /\ loop[l].pc = "retry"
  /\ loop' = [loop EXCEPT ![l] = [Idle EXCEPT !.pc = "crashed"]]
  /\ UNCHANGED <<jobs, now, tz, handlers, leases, runs, ext, web>>

Step(l) ==
  \/ BeginSelect(l)
  \/ MarkRunning(l)
  \/ TxCommit(l)
  \/ NoHandler(l)
  \/ Invoke(l)
  \/ markJobCompleted(l)
  \/ markJobFailed(l)
  \/ RetryRead(l)
  \/ RetryUpdate(l)

Fault(l) ==
  \/ LeaseError(l)
  \/ MarkError(l)
  \/ RetryReadError(l)

Next ==
  \/ Advance
  \/ EnqueueJob
  \/ EnqueueDelayedJob
  \/ InsertRow
  \/ \E l \in Loops : Step(l)
  \/ \E l \in Loops : Fault(l)

Spec == Init /\ [][Next]_vars

\* two processor instances polling the same store
InitMulti ==
  /\ jobs = <<>>
  /\ now = 0
  /\ tz = 0
  /\ handlers = WithBuiltIns(CallerHandlers)
  /\ loop = [l \in Loops |-> Idle]
  /\ leases = <<>>
  /\ runs = <<>>
  /\ running = TRUE
  /\ maint = [m \in Loops |-> "off"]
  /\ registered = handlers
  /\ TablesInit
  /\ WebInit

NextMulti ==
  \/ Advance
  \/ EnqueueJob
  \/ EnqueueDelayedJob
  \/ \E l \in Loops : Step(l)
  \/ \E l \in Loops : Fault(l)

SpecMulti == InitMulti /\ [][NextMulti]_vars

\* one processor on a store that returns no errors; the ticker keeps firing,
\* so the poll loop keeps taking its next step
LiveNext ==
  \/ Advance
  \/ EnqueueJob
  \/ \E l \in Loops : Step(l)

LiveSpec == Init /\ [][LiveNext]_vars /\ WF_vars(Step(1))

\* --------------------------------------------------------------- lifecycle
\* the free goroutine slot with the smallest number
FirstOff(pcs) == {l \in Loops : pcs[l] = "off" /\ \A k \in Loops : k < l => pcs[k] # "off"}

\* Start: returns at once when jp.running is set; otherwise sets it,
\* registers the built-in handlers and starts the two goroutines
Start ==
  /\ ~running
  /\ running' = TRUE
  /\ handlers' = WithBuiltIns(handlers)
  /\ registered' = WithBuiltIns(registered)
  /\ \E l \in FirstOff([k \in Loops |-> loop[k].pc]), m \in FirstOff(maint) :
       /\ loop' = [loop EXCEPT ![l].pc = "spawned"]
       /\ maint' = [maint EXCEPT ![m] = "sessions"]
  /\ UNCHANGED <<jobs, now, tz, leases, runs, sessions, events, issued,
                 revoked, last, web>>

\* mutant: Stop also ends the poll goroutines where they stand
StopPreempts ==
  /\ running
  /\ running' = FALSE
  /\ loop' = [l \in Loops |-> Exited]
  /\ UNCHANGED <<jobs, now, tz, handlers, leases, runs, maint, registered,
                 sessions, events, issued, revoked, last, web>>

\* Stop: jp.running = false, nothing else
Stop ==
  /\ running
  /\ running' = FALSE
  /\ UNCHANGED <<jobs, now, tz, handlers, loop, leases, runs, maint,
                 registered, sessions, events, issued, revoked, last,
                 web>>

\* the poll goroutine starts: the ticker is made and the loop condition is
\* read for the first time
processJobs(l) ==
  /\ loop[l].pc = "spawned"
  /\ loop' = [loop EXCEPT ![l] = LoopHead]
  /\ UNCHANGED <<jobs, now, tz, handlers, leases, runs, ext, web>>

\* the job type a maintenance goroutine enqueues at its position
CleanupType(pos) == IF pos = "sessions" THEN "cleanup_sessions"
                                        ELSE "cleanup_usage_events"

\* the position after an EnqueueJob of the maintenance goroutine: the second
\* call follows the first, the loop condition follows the second
AfterEnqueue(pos) == IF pos = "sessions" THEN "usage"
                     ELSE IF running THEN "wait" ELSE "off"

\* scheduleCleanupJobs, one jp.EnqueueJob(type, nil) call; its error is
\* dropped, so a busy store only loses the row
MaintEnqueue(m) ==
  /\ maint[m] \in {"sessions", "usage"}
  /\ Len(jobs) < MaxJobs
  /\ IF CanWrite(0)
       THEN /\ jobs' = Append(jobs, NewJob(CleanupType(maint[m]), "null",
                                           DefaultMaxAttempts, CurrentTimestamp))
            /\ leases' = Append(leases, 0)
            /\ runs' = Append(runs, 0)
       ELSE UNCHANGED <<jobs, leases, runs, web>>
  /\ maint' = [maint EXCEPT ![m] = AfterEnqueue(maint[m])]
  /\ UNCHANGED <<now, tz, handlers, loop, running, registered, sessions,
                 events, issued, revoked, last, web>>

\* case <-ticker.C of the maintenance loop (every 24 hours)
MaintTick(m) ==
  /\ maint[m] = "wait"
  /\ maint' = [maint EXCEPT ![m] = "sessions"]
  /\ UNCHANGED <<jobs, now, tz, handlers, loop, leases, runs, running,
                 registered, sessions, events, issued, revoked, last,
                 web>>

\* what a handler registered by the caller does when it is called
HandlerKinds == {"nil", "error", "panic"}
\* the job types the caller registers handlers for
RegTypes == {"ok", "cleanup_sessions"}

\* mutant: a type that has a handler keeps it
RegisterHandlerKeepsFirst ==
  \E t \in RegTypes, h \in HandlerKinds :
    /\ \A l \in Loops : loop[l].pc = "off"
    /\ handlers' = [handlers EXCEPT ![t] = IF @ = "absent" THEN h ELSE @]
    /\ registered' = [registered EXCEPT ![t] = h]
    /\ UNCHANGED <<jobs, now, tz, loop, leases, runs, running, maint,
                   sessions, events, issued, revoked, last, web>>

\* RegisterHandler(jobType, handler): jp.handlers[jobType] = handler; the map
\* is not guarded, so the calls are made while no poll goroutine reads it
RegisterHandler ==
  \E t \in RegTypes, h \in HandlerKinds :
    /\ \A l \in Loops : loop[l].pc = "off"
    /\ handlers' = [handlers EXCEPT ![t] = h]
    /\ registered' = [registered EXCEPT ![t] = h]
    /\ UNCHANGED <<jobs, now, tz, loop, leases, runs, running, maint,
                   sessions, events, issued, revoked, last, web>>

\* handler(job.Payload) panics: processNextJob has no recover, the panic
\* leaves the poll goroutine and ends the process
InvokePanic(l) ==
  /\ loop[l].pc = "leased"
  /\ handlers[loop[l].type] = "panic"
  /\ runs' = [runs EXCEPT ![loop[l].id] = @ + 1]
  /\ loop' = [loop EXCEPT ![l] = [Idle EXCEPT !.pc = "crashed"]]
  /\ UNCHANGED <<jobs, now, tz, handlers, leases, ext, web>>

\* a processor from its construction on: nothing registered by Start yet,
\* no goroutine
InitLife ==
  /\ jobs = <<>>
  /\ now = 0
  /\ tz = 0
  /\ handlers = CallerHandlers
  /\ loop = [l \in Loops |-> Exited]
  /\ leases = <<>>
  /\ runs = <<>>
  /\ running = FALSE
  /\ maint = [m \in Loops |-> "off"]
  /\ registered = handlers
  /\ TablesInit
  /\ WebInit

NextLife ==
  \/ Start
  \/ Stop
  \/ EnqueueJob
  \/ \E l \in Loops : processJobs(l)
  \/ \E m \in Loops : MaintEnqueue(m)
  \/ \E m \in Loops : MaintTick(m)
  \/ \E l \in Loops : Step(l)
  \/ \E l \in Loops : LeaseError(l)

SpecLife == InitLife /\ [][NextLife]_vars

\* a processor whose caller registers handlers, then starts it once
NextReg ==
  \/ RegisterHandler
  \/ Start
  \/ EnqueueJob
  \/ \E l \in Loops : processJobs(l)
  \/ \E m \in Loops : MaintEnqueue(m)
  \/ \E m \in Loops : MaintTick(m)
  \/ \E l \in Loops : Step(l)
  \/ \E l \in Loops : InvokePanic(l)

SpecReg == InitLife /\ [][NextReg]_vars

\* ------------------------------------------------------------------ claims
\* the instant a stored stamp denotes, in minutes of the UTC clock: the
\* driver text carries its zone suffix, CURRENT_TIMESTAMP text is UTC
Instant(s) == IF s.go THEN s.wall - tz ELSE s.wall

\* instants in half minutes, the driver's fraction counted as one half
At(s) == 2 * Instant(s) + (IF s.go THEN 1 ELSE 0)

\* the loops that hold job j after a committed lease
Holders(j) == {l \in Loops : /\ loop[l].id = j
                             /\ loop[l].pc \in {"leased", "complete", "fail",
                                                "retry", "reschedule"}}

\* C1: with two poll loops on one store no job is held by two ticks at once,
\* a held job is in status running, every handler invocation belongs to a
\* pending->running flip of its own, and every committed lease is such a flip.
C1_NoDoubleLease ==
  \A j \in Ids :
    /\ Cardinality(Holders(j)) <= 1
    /\ Holders(j) # {} => jobs[j].status = "running"
    /\ runs[j] <= leases[j]
    /\ jobs[j].attempts = leases[j]

\* both loops have selected the same pending row and one has issued its UPDATE
C1_Witness ==
  /\ loop[1].pc = "updated"
  /\ loop[2].pc = "selected"
  /\ loop[1].id = loop[2].id

\* C2: with one processor, a job whose handler succeeds is leased at most
\* once and run at most once, it is completed only after exactly one lease
\* and one run, and no job is run more often than it was leased.
C2_ExactlyOnce ==
  \A j \in Ids :
    /\ runs[j] <= leases[j]
    /\ handlers[jobs[j].type] = "nil" =>
         /\ leases[j] <= 1
         /\ jobs[j].status # "failed"
         /\ jobs[j].status = "completed" => (leases[j] = 1 /\ runs[j] = 1)

C2_Witness ==
  \E j \in Ids : /\ handlers[jobs[j].type] = "nil"
                 /\ jobs[j].status = "completed"
                 /\ ~jobs[j].scheduled_at.go

\* C3: a job whose handler always returns an error is never completed, is
\* failed only with attempts = max_attempts after exactly max_attempts
\* leases, and while it has been leased fewer times it is pending or running.
C3_FailsAfterMaxAttempts ==
  \A j \in Ids :
    handlers[jobs[j].type] = "error" =>
      /\ jobs[j].status # "completed"
      /\ jobs[j].status = "failed" =>
           (jobs[j].attempts = jobs[j].max_attempts /\ leases[j] = jobs[j].max_attempts)
      /\ leases[j] <= jobs[j].max_attempts

C3_Witness ==
  \E j \in Ids : /\ handlers[jobs[j].type] = "error"
                 /\ jobs[j].status = "failed"
                 /\ jobs[j].max_attempts = 3
                 /\ runs[j] = 3
                 /\ tz = 0

\* the schedule as the specification states it
ScheduleDelay(attempts) ==
  CASE attempts = 1 -> 1
    [] attempts = 2 -> 5
    [] OTHER -> 30

\* C4: every step that takes a job from running back to pending (a retry)
\* sets scheduled_at to the instant now + delay, delay given by the schedule
\* at the job's attempts, and happens only while attempts < max_attempts.
C4_RetryDelay ==
  [][\A j \in Ids :
       (jobs[j].status = "running" /\ jobs'[j].status = "pending") =>
          /\ Instant(jobs'[j].scheduled_at) = now + ScheduleDelay(jobs[j].attempts)
          /\ jobs[j].attempts < jobs[j].max_attempts]_vars

C4_Witness ==
  \E j, k \in Ids :
     /\ jobs[j].status = "pending" /\ jobs[j].attempts = 3
     /\ Instant(jobs[j].scheduled_at) = now + 30
     /\ jobs[k].status = "pending" /\ jobs[k].attempts = 1
     /\ Instant(jobs[k].scheduled_at) = now + 1

\* C5: when a tick selects a row, every other pending row that is due
\* (scheduled_at <= now) has a later scheduled_at, or the same and a larger
\* id.
C5_OldestReadyFirst ==
  [][\A l \in Loops :
       (loop[l].pc = "wait" /\ loop'[l].pc = "selected") =>
          LET j == loop'[l].id IN
            \A k \in Ids \ {j} :
              (jobs[k].status = "pending" /\ At(jobs[k].scheduled_at) <= 2 * now) =>
                 \/ At(jobs[j].scheduled_at) < At(jobs[k].scheduled_at)
                 \/ /\ At(jobs[j].scheduled_at) = At(jobs[k].scheduled_at)
                    /\ j < k]_vars

\* C6: a job of a type without handler is never run and never leased twice,
\* after its lease it is running or failed (never pending again), and when
\* failed it carries the no-handler message and attempts = 1.
C6_UnregisteredType ==
  \A j \in Ids :
    handlers[jobs[j].type] = "absent" =>
      /\ runs[j] = 0
      /\ leases[j] <= 1
      /\ jobs[j].attempts <= 1
      /\ jobs[j].attempts = 1 => jobs[j].status \in {"running", "failed"}
      /\ jobs[j].status = "failed" =>
           /\ jobs[j].attempts = 1
           /\ jobs[j].error = "no handler registered for job type: none"
      /\ jobs[j].status # "completed"

C6_Witness ==
  \E j \in Ids : /\ jobs[j].type = "none"
                 /\ jobs[j].status = "failed"
                 /\ jobs[j].max_attempts > 1

\* C7: every change of a job's status is pending->running,
\* running->completed, running->pending or running->failed; completed and
\* failed are never left.
C7_StatusTransitions ==
  [][\A j \in Ids :
       jobs'[j].status # jobs[j].status =>
         <<jobs[j].status, jobs'[j].status>> \in
            {<<"pending", "running">>, <<"running", "completed">>,
             <<"running", "pending">>, <<"running", "failed">>}]_vars

\* with both loops at work: one job failed after a retry, another completed
C7_Witness ==
  /\ \E j \in Ids : jobs[j].status = "failed" /\ jobs[j].attempts = 3
  /\ \E j \in Ids : jobs[j].status = "completed"
  /\ loop[2].pc = "wait"

\* C8: attempts always equals the number of leases; it changes only by +1
\* and only in the step that flips the job from pending to running; and a
\* handler is invoked only for a running job whose attempts already counts
\* the lease the invocation belongs to.
C8_AttemptsCountLeases ==
  /\ [](\A j \in Ids : jobs[j].attempts = leases[j])
  /\ [][\A j \in Ids :
          /\ jobs'[j].attempts # jobs[j].attempts =>
               /\ jobs'[j].attempts = jobs[j].attempts + 1
               /\ jobs[j].status = "pending"
               /\ jobs'[j].status = "running"
          /\ runs'[j] # runs[j] =>
               /\ jobs[j].status = "running"
               /\ jobs[j].attempts = runs[j] + 1]_vars

C8_Witness ==
  \E j \in Ids : /\ jobs[j].attempts = 2
                 /\ runs[j] = 1
                 /\ jobs[j].status = "running"
                 /\ \E l \in Loops : loop[l].pc = "leased" /\ loop[l].id = j

\* C9: a job is leased (pending->running) only when the instant its
\* scheduled_at denotes is not after now.
C9_NotBeforeScheduledAt ==
  [][\A j \in Ids :
       (jobs[j].status = "pending" /\ jobs'[j].status = "running") =>
          Instant(jobs[j].scheduled_at) <= now]_vars

\* a row written by EnqueueJob for a type whose handler returns nil
Immediate(j) ==
  /\ j \in Ids
  /\ handlers[jobs[j].type] = "nil"
  /\ ~jobs[j].scheduled_at.go

StatusIs(j, st) == j \in Ids /\ jobs[j].status = st

\* C10: while ticks keep firing and the store returns no errors, a pending
\* job written by EnqueueJob whose handler succeeds is eventually running,
\* and once running it is eventually completed.
C10_EnqueuedJobCompletes ==
  \A j \in 1..MaxJobs :
    /\ (Immediate(j) /\ StatusIs(j, "pending")) ~> StatusIs(j, "running")
    /\ (Immediate(j) /\ StatusIs(j, "running")) ~> StatusIs(j, "completed")

\* the job completed although a job with an earlier row was in the table
C10_Witness ==
  /\ Immediate(2)
  /\ StatusIs(2, "completed")
  /\ StatusIs(1, "failed")

\* C11: a poll loop that is between ticks starts the work of a tick (selects
\* a row to lease) only while the processor is running; so after a Stop
\* that found the loop between ticks no job is leased.
C11_NoLeaseAfterStop ==
  [][\A l \in Loops :
       (loop[l].pc = "wait" /\ loop'[l].pc = "selected") => running]_vars

\* one processor that may be stopped, on a store that returns no errors; the
\* poll goroutine keeps taking its steps until it returns
NextStop ==
  \/ Advance
  \/ EnqueueJob
  \/ Stop
  \/ \E l \in Loops : Step(l)

SpecStop == Init /\ [][NextStop]_vars /\ WF_vars(Step(1))

\* job j is leased and its tick has not ended
InFlight(j) == j \in Ids /\ jobs[j].status = "running" /\ Holders(j) # {}

C13_StoreErrorEndsTick ==
  /\ [](\A l \in Loops : loop[l].pc # "crashed")
  /\ [][\A l \in Loops :
          (loop[l].pc \in {"selected", "updated"} /\ loop'[l].pc = "wait") =>
             jobs' = jobs]_vars

\* C14: no poll loop is ever ended by a handler, and a job whose handler has
\* been invoked as often as the job was leased, with no tick holding it any
\* more, is not left in status running.
C14_PanicBecomesTransition ==
  /\ \A l \in Loops : loop[l].pc # "crashed"
  /\ \A j \in Ids :
       (runs[j] > 0 /\ runs[j] = leases[j] /\ Holders(j) = {}) =>
          jobs[j].status # "running"

\* the poll goroutines of the processor that hold a leased job whose handler
\* has been called and has not returned
Invoking == {l \in Loops : loop[l].pc = "leased"}

\* C15: no step leases more than one job, and at no time two handler
\* invocations of the processor are in flight.
C15_OneJobInFlight ==
  /\ [][Cardinality({j \in Ids : jobs[j].status = "pending"
                                 /\ jobs'[j].status = "running"}) <= 1]_vars
  /\ [](Cardinality(Invoking) <= 1)

\* C16: a row of a maintenance job type is added to the jobs table only
\* while the processor is running, and each maintenance goroutine adds
\* cleanup_sessions first and cleanup_usage_events second.
C16_MaintenanceOnlyWhileRunning ==
  [][Len(jobs') > Len(jobs) /\ jobs'[Len(jobs')].type \in CleanupTypes =>
       /\ running
       /\ \E m \in Loops : /\ maint[m] \in {"sessions", "usage"}
                           /\ jobs'[Len(jobs')].type = CleanupType(maint[m])
                           /\ maint'[m] = AfterEnqueue(maint[m])]_vars

\* what the tick does after calling a handler of kind h
OutcomeOf(h) ==
  CASE h = "error" -> {"fail", "retry"}
    [] h = "panic" -> {"crashed"}
    [] OTHER -> {"complete"}

\* C17: the handler map always holds, for every type, the handler of the
\* latest registration of that type; a handler invocation for a job behaves
\* as that handler; and a registration changes the entry of its own type
\* only (Start, which registers both built-in handlers, changes those two).
C17_LastRegistrationWins ==
  /\ [](handlers = registered)
  /\ [][\A l \in Loops :
          (loop[l].pc = "leased" /\ loop'[l].pc # "leased") =>
             IF registered[loop[l].type] = "absent"
               THEN runs' = runs
               ELSE /\ runs'[loop[l].id] = runs[loop[l].id] + 1
                    /\ loop'[l].pc \in OutcomeOf(registered[loop[l].type])]_vars
  /\ [][\A t, u \in AllTypes :
          (t # u /\ handlers'[t] # handlers[t] /\ handlers'[u] # handlers[u]) =>
             (~running /\ running' /\ {t, u} = CleanupTypes)]_vars

\* the caller's first handler for "ok" returned nil; a later registration
\* replaced it by one that returns an error, and a job has met that one
C17_Witness ==
  /\ registered["ok"] = "error"
  /\ \E j \in Ids : /\ jobs[j].type = "ok"
                    /\ runs[j] = 1
                    /\ jobs[j].status = "pending"
                    /\ jobs[j].attempts = 1

\* ---------------------------------------------------------------- sessions
\* AuthService (internal/auth) over the sessions table.  A token is the
\* number of the login that made it: generateToken draws 32 random bytes,
\* so no token is returned twice.
EmptyToken == 0
\* a token no login has returned, like "invalid-token"
UnknownToken == -1
\* the tokens a caller can present: the issued ones, the empty and an
\* unknown one
Tokens == {EmptyToken, UnknownToken} \cup (1..Len(issued))

ErrSessionExpired == [err |-> "ErrSessionExpired", user |-> 0]
StoreError == [err |-> "store error", user |-> 0]
Ok(u) == [err |-> "nil", user |-> u]

\* Login with the credentials of user u: the session row is written with
\* expiresAt := time.Now().Add(24 * time.Hour), bound as a time.Time
Login ==
  \E u \in Users :
    /\ Len(issued) < MaxSessions
    /\ LET token == Len(issued) + 1 IN
         /\ sessions' = sessions \cup
               {[token |-> token, user_id |-> u,
                 expires_at |-> GoStamp(now + SessionMinutes)]}
         /\ issued' = Append(issued, [user |-> u, expires |-> now + SessionMinutes])
         /\ last' = [op |-> "Login", token |-> token, res |-> Ok(u)]
    /\ UNCHANGED <<jobs, now, tz, handlers, loop, leases, runs, running, maint,
                   registered, events, revoked, web>>

\* SELECT user_id, expires_at FROM sessions WHERE token = ?
SessionRow(token) == {s \in sessions : s.token = token}

\* mutant: the stored text is read as a wall clock of the host's zone
\* without its suffix
ExpiredIgnoringZone(s) == now > s.expires_at.wall

\* time.Now().After(expiresAt), expiresAt scanned from the stored text: the
\* driver parses the zone suffix, so the instant is the one that was written
Expired(s) == now > Instant(s.expires_at)

\* what ValidateSession(token) returns
ValidateResult(token) ==
  IF token = EmptyToken \/ SessionRow(token) = {}
    THEN ErrSessionExpired
    ELSE LET s == CHOOSE s \in SessionRow(token) : TRUE IN
           IF Expired(s) THEN ErrSessionExpired ELSE Ok(s.user_id)

\* ValidateSession(token); a row found expired is deleted
ValidateSession ==
  \E token \in Tokens :
    /\ last' = [op |-> "ValidateSession", token |-> token,
                res |-> ValidateResult(token)]
    /\ sessions' = sessions \ {s \in SessionRow(token) : Expired(s)}
    /\ UNCHANGED <<jobs, now, tz, handlers, loop, leases, runs, running, maint,
                   registered, events, issued, revoked, web>>

\* Logout(token): DELETE FROM sessions WHERE token = ?, returns nil
Logout ==
  \E token \in Tokens :
    /\ sessions' = sessions \ SessionRow(token)
    /\ revoked' = revoked \cup ({token} \cap (1..Len(issued)))
    /\ last' = [op |-> "Logout", token |-> token, res |-> Ok(0)]
    /\ UNCHANGED <<jobs, now, tz, handlers, loop, leases, runs, running, maint,
                   registered, events, issued, web>>

\* Logout(token) when the DELETE returns an error: the row stays
LogoutError ==
  \E token \in Tokens :
    /\ last' = [op |-> "Logout", token |-> token, res |-> StoreError]
    /\ UNCHANGED <<jobs, now, tz, handlers, loop, leases, runs, running, maint,
                   registered, sessions, events, issued, revoked,
                 web>>

\* AuthService.CleanupExpiredSessions, the statement of the cleanup_sessions
\* handler
CleanupExpiredSessions ==
  /\ sessions' = SessionsAfterCleanup
  /\ last' = [op |-> "CleanupExpiredSessions", token |-> EmptyToken, res |-> Ok(0)]
  /\ UNCHANGED <<jobs, now, tz, handlers, loop, leases, runs, running, maint,
                 registered, events, issued, revoked, web>>

AdvanceSessions ==
  /\ \E t \in SessionInstants : t > now /\ now' = t
  /\ UNCHANGED <<jobs, tz, handlers, loop, leases, runs, ext, web>>

NextAuth ==
  \/ AdvanceSessions
  \/ Login
  \/ ValidateSession
  \/ Logout
  \/ LogoutError
  \/ CleanupExpiredSessions

SpecAuth == Init /\ [][NextAuth]_vars

\* C18: in every state, the rows the cleanup statement leaves in the
\* sessions table are exactly those whose expires_at is not before now:
\* every expired row goes, every other row stays.
C18_CleanupDeletesExpired ==
  SessionsAfterCleanup = {s \in sessions : ~(Instant(s.expires_at) < now)}

\* C20: a token whose Logout returned nil is rejected with ErrSessionExpired
\* from then on; a user is returned only for an issued token that was not
\* logged out and whose expiry has not passed, and it is the user who
\* logged in; the empty and the unknown token are rejected with
\* ErrSessionExpired.
C20_LoggedOutIsRejected ==
  /\ \A token \in Tokens :
       /\ token \in revoked => ValidateResult(token) = ErrSessionExpired
       /\ ValidateResult(token).err = "nil" =>
            /\ token \in 1..Len(issued)
            /\ token \notin revoked
            /\ now <= issued[token].expires
            /\ ValidateResult(token).user = issued[token].user
       /\ token \in {EmptyToken, UnknownToken} =>
            ValidateResult(token) = ErrSessionExpired
  /\ (last.op = "ValidateSession" /\ last.res.err = "nil") =>
       last.token \notin revoked

\* ValidateSession has rejected a logged-out token whose expiry lies ahead,
\* while another user's session is still accepted
C20_Witness ==
  \E token \in revoked :
    /\ last = [op |-> "ValidateSession", token |-> token, res |-> ErrSessionExpired]
    /\ now < issued[token].expires
    /\ \E other \in Tokens : ValidateResult(other).err = "nil"

\* ------------------------------------------------------------ usage events
\* INSERT INTO usage_events (tenant_id, user_id, event_type, event_data):
\* created_at takes its default, CURRENT_TIMESTAMP
TrackEvent ==
  /\ Len(events) < MaxEvents
  /\ events' = Append(events, [created_at |-> CurrentTimestamp, present |-> TRUE])
  /\ UNCHANGED <<jobs, now, tz, handlers, loop, leases, runs, running, maint,
                 registered, sessions, issued, revoked, last, web>>

\* the cleanup_usage_events handler, returning nil
handleCleanupUsageEvents ==
  /\ events' = EventsAfterCleanup
  /\ last' = [op |-> "cleanup_usage_events", token |-> EmptyToken, res |-> Ok(0)]
  /\ UNCHANGED <<jobs, now, tz, handlers, loop, leases, runs, running, maint,
                 registered, sessions, issued, revoked, web>>

AdvanceUsage ==
  /\ \E t \in UsageInstants : t > now /\ now' = t
  /\ UNCHANGED <<jobs, tz, handlers, loop, leases, runs, ext, web>>

NextUsage ==
  \/ AdvanceUsage
  \/ TrackEvent
  \/ handleCleanupUsageEvents

SpecUsage == Init /\ [][NextUsage]_vars

\* C19: in every state, a run of the cleanup deletes exactly the rows
\* created more than 90 days before now, and a second run on the table the
\* first one left, with the clock unchanged, deletes nothing.
C19_CleanupIdempotent ==
  /\ \A i \in DOMAIN events :
       EventsAfterCleanup[i].present <=>
         /\ events[i].present
         /\ ~(Instant(events[i].created_at) < now - RetentionMinutes)
  /\ CleanupUsage(EventsAfterCleanup) = EventsAfterCleanup

\* the cleanup has run: the event older than 90 days is gone, the younger
\* one is still there
C19_Witness ==
  /\ last.op = "cleanup_usage_events"
  /\ \E i, k \in DOMAIN events :
       /\ ~events[i].present
       /\ events[k].present
       /\ Instant(events[k].created_at) - Instant(events[i].created_at) = 60
       /\ tz # 0

\* ---------------------------------------------------------------------
\* the columns a finishing UPDATE may write, by the status it sets
WrittenBy(status) ==
  CASE status = "pending"   -> {"status", "scheduled_at", "error"}
    [] status = "completed" -> {"status", "completed_at"}
    [] status = "failed"    -> {"status", "completed_at", "error"}
    [] OTHER                -> {"status", "started_at", "attempts"}

\* C25: the retry UPDATE writes only status (pending), scheduled_at and
\* error, the completing UPDATE only status and completed_at, the failing
\* UPDATE only status, completed_at and error; every other column of the
\* job keeps its value, and a step that finishes one job changes no other row.
C25_FinishingUpdatesFrame ==
  [][\A j \in Ids :
       (jobs'[j] # jobs[j] /\ jobs[j].status = "running") =>
          /\ jobs'[j].status \in {"pending", "completed", "failed"}
          /\ \A f \in DOMAIN jobs[j] \ WrittenBy(jobs'[j].status) :
               jobs'[j][f] = jobs[j][f]
          /\ \A k \in Ids \ {j} : jobs'[k] = jobs[k]
          /\ Len(jobs') = Len(jobs)]_vars

\* one job was rescheduled and then failed for good, another was completed
C25_Witness ==
  /\ \E j \in Ids : /\ jobs[j].status = "failed"
                    /\ jobs[j].error = HandlerError
                    /\ jobs[j].scheduled_at.go
  /\ \E k \in Ids : jobs[k].status = "completed" /\ jobs[k].attempts = 1

\* the goroutines of the processor that have been started and not returned
PollLoops == {l \in Loops : loop[l].pc \notin {"off", "crashed"}}
MaintLoops == {m \in Loops : maint[m] # "off"}

\* C26: while the processor is running at most one poll goroutine and at
\* most one maintenance goroutine of it are alive, whatever sequence of
\* Start() and Stop() calls was made.
C26_OneLoopOfEachKind ==
  running => Cardinality(PollLoops) <= 1 /\ Cardinality(MaintLoops) <= 1

\* the running jobs no tick holds any more: the tick that leased them
\* crashed or its finishing UPDATE returned an error
Orphans == {j \in Ids : jobs[j].status = "running" /\ Holders(j) = {}}

\* C27: no lease is under way for a job in status running, and a running
\* job that its tick has let go (crash, or failed complete/fail/retry
\* UPDATE) keeps its row unchanged and is never held by any tick again.
C27_RunningIsNeverLeased ==
  /\ [](\A j \in Ids : \A l \in Loops :
          (jobs[j].status = "running" /\ loop[l].id = j) =>
             loop[l].pc \notin {"selected", "updated"})
  /\ [][\A j \in Orphans :
          /\ jobs'[j] = jobs[j]
          /\ \A l \in Loops : loop'[l].id # j]_vars

\* a job orphaned by a crashed tick, while the other processor has since
\* completed a job enqueued after it
C27_Witness ==
  \E j \in Orphans : /\ \E l \in Loops : loop[l].pc = "crashed"
                     /\ \E k \in Ids : k > j /\ jobs[k].status = "completed"

\* C28: with a single processor every job has 0 <= attempts <=
\* max_attempts, and every pending job has attempts < max_attempts.
C28_AttemptsWithinMax ==
  \A j \in Ids :
    /\ 0 <= jobs[j].attempts
    /\ jobs[j].attempts <= jobs[j].max_attempts
    /\ jobs[j].status = "pending" => jobs[j].attempts < jobs[j].max_attempts

\* one job is back in pending with its last attempt left, another has used
\* all of its attempts and is failed
C28_Witness ==
  /\ \E j \in Ids : /\ jobs[j].status = "pending"
                    /\ jobs[j].attempts = jobs[j].max_attempts - 1
  /\ \E k \in Ids : /\ jobs[k].status = "failed"
                    /\ jobs[k].attempts = jobs[k].max_attempts

\* C29: completed_at is set exactly for the jobs in status completed or
\* failed, and started_at is set exactly for the jobs with attempts >= 1.
C29_StampsFollowStatus ==
  \A j \in Ids :
    /\ jobs[j].completed_at # Null <=> jobs[j].status \in {"completed", "failed"}
    /\ jobs[j].started_at # Null <=> jobs[j].attempts >= 1

\* a failed job next to a rescheduled one that waits for its second attempt
C29_Witness ==
  /\ \E j \in Ids : jobs[j].status = "failed" /\ jobs[j].completed_at = NotNull
  /\ \E k \in Ids : /\ jobs[k].status = "pending"
                    /\ jobs[k].attempts = 1
                    /\ jobs[k].started_at = NotNull
                    /\ jobs[k].completed_at = Null

\* C30: Start() leaves in place every handler the caller registered before
\* it, for every job type, cleanup_sessions and cleanup_usage_events included.
C30_StartKeepsHandlers ==
  [][(~running /\ running') =>
       \A t \in AllTypes : handlers[t] # "absent" => handlers'[t] = handlers[t]]_vars

\* ------------------------------------------------------------------- CSRF
\* time.Hour in minutes: the life of a token
TokenLife == 60
\* instants of the middleware calls, in minutes
WebInstants == {0, 59, 60, 61, 181}

\* what a request can carry as its token: nothing, a string that was never
\* generated, or a generated token
Presented == {EmptyToken, UnknownToken} \cup (1..Len(minted))

\* c.tokens.Load(token)
Stored(token) == {e \in csrfTokens : e.token = token}

\* mutant: a stored token is valid whatever its expiry
ValidTokenIgnoresExpiry(token) ==
  token # EmptyToken /\ Stored(token) # {}

\* what ValidateToken returns: the token is not "", is stored, and
\* time.Now() is not after its expiry
ValidToken(token) ==
  /\ token # EmptyToken
  /\ \E e \in Stored(token) : ~(now > e.expiry)

\* c.tokens.Delete(token)
Without(token) == csrfTokens \ Stored(token)

\* GenerateToken (CSRFTokenHandler, or a GET through the middleware): a
\* fresh random string is stored with expiry time.Now() + 1 hour
GenerateToken ==
  /\ Len(minted) < MaxTokens
  /\ minted' = Append(minted, now)
  /\ consumed' = Append(consumed, 0)
  /\ csrfTokens' = csrfTokens \cup
                     {[token |-> Len(minted) + 1, expiry |-> now + TokenLife]}
  /\ UNCHANGED <<jobs, now, tz, handlers, loop, leases, runs, ext, req,
                 limiter, allowed, tenant, adder>>

\* a POST, PUT, DELETE or PATCH request r enters the middleware and
\* ConsumeToken calls ValidateToken: false ends the request with 403 (an
\* expired entry is deleted on the way), true lets ConsumeToken go on
ValidateToken(r) ==
  /\ req[r].pc = "idle"
  /\ \E token \in Presented :
       IF ValidToken(token)
         THEN /\ req' = [req EXCEPT ![r] = [pc |-> "validated", token |-> token]]
              /\ UNCHANGED csrfTokens
         ELSE /\ csrfTokens' = Without(token)
              /\ UNCHANGED req
  /\ UNCHANGED <<jobs, now, tz, handlers, loop, leases, runs, ext, minted,
                 consumed, limiter, allowed, tenant, adder>>

\* the rest of ConsumeToken: c.tokens.Delete(token), return true, and the
\* middleware calls next.ServeHTTP
ConsumeToken(r) ==
  /\ req[r].pc = "validated"
  /\ csrfTokens' = Without(req[r].token)
  /\ consumed' = [consumed EXCEPT ![req[r].token] = @ + 1]
  /\ req' = [req EXCEPT ![r] = NoRequest]
  /\ UNCHANGED <<jobs, now, tz, handlers, loop, leases, runs, ext, minted,
                 limiter, allowed, tenant, adder>>

\* the 15-minute sweep: every entry with time.Now() after its expiry goes
cleanupExpiredTokens ==
  /\ csrfTokens' = {e \in csrfTokens : ~(now > e.expiry)}
  /\ UNCHANGED <<jobs, now, tz, handlers, loop, leases, runs, ext, minted,
                 req, consumed, limiter, allowed, tenant, adder>>

AdvanceWeb ==
  /\ \E t \in WebInstants : t > now /\ now' = t
  /\ UNCHANGED <<jobs, tz, handlers, loop, leases, runs, ext, web>>

NextCsrf ==
  \/ GenerateToken
  \/ \E r \in Callers : ValidateToken(r)
  \/ \E r \in Callers : ConsumeToken(r)
  \/ cleanupExpiredTokens
  \/ AdvanceWeb

\* the CSRF middleware under two concurrent requests
SpecCsrf == InitMulti /\ [][NextCsrf]_vars

\* the generated tokens that are within their hour
WithinHour == {t \in 1..Len(minted) : now <= minted[t] + TokenLife}

\* C21 as stated: the middleware lets a request through only if its token
\* is stored and unexpired, and every token generated within the last hour
\* is let through.
C21_IssuedTokenPasses ==
  /\ [][\A r \in Callers :
          (req[r].pc = "idle" /\ req'[r].pc = "validated") =>
             \E e \in Stored(req'[r].token) : now <= e.expiry]_vars
  /\ [](\A t \in WithinHour : ValidToken(t))

\* C21: the middleware lets a request through only if its token is stored
\* and unexpired when it is validated, the wrapped handler runs only for a
\* request that was let through, and the tokens that are let through are
\* exactly those generated within the last hour that no request has
\* consumed yet.
C21_UnconsumedTokenPasses ==
  /\ [][/\ \A r \in Callers :
            (req[r].pc = "idle" /\ req'[r].pc = "validated") =>
               \E e \in Stored(req'[r].token) : now <= e.expiry
        /\ \A t \in 1..Len(minted) :
            consumed'[t] # consumed[t] =>
               \E r \in Callers : req[r] = [pc |-> "validated", token |-> t]]_vars
  /\ [](\A t \in Presented :
          ValidToken(t) <=> (t \in WithinHour /\ consumed[t] = 0))

\* one token was consumed within its hour, another has expired unused
C21_Witness ==
  \E t, u \in 1..Len(minted) :
    /\ consumed[t] = 1 /\ t \in WithinHour
    /\ consumed[u] = 0 /\ u \notin WithinHour /\ Stored(u) # {}

\* C22: for every token at most one ConsumeToken call has returned true.
C22_SingleUse ==
  \A t \in 1..Len(minted) : consumed[t] <= 1

\* ----------------------------------------------------------- rate limiter
\* the rate argument of NewRateLimiter
Rates == {1, 2}
\* the window argument of NewRateLimiter: time.Hour, in minutes
Window == 60

NewRateLimiter ==
  /\ limiter.rate = 0
  /\ \E rate \in Rates : limiter' = [limiter EXCEPT !.rate = rate]
  /\ UNCHANGED <<jobs, now, tz, handlers, loop, leases, runs, ext, csrfTokens,
                 minted, req, consumed, allowed, tenant, adder>>

\* the bucket of a key after the refill test of Allow
Refilled(b) ==
  IF now - b.lastRefill >= Window
    THEN [b EXCEPT !.tokens = limiter.rate, !.lastRefill = now]
    ELSE b

\* Allow(key), under rl.mu: a new key gets a bucket with rate - 1 tokens
\* and is let through; a known key is refilled when the window has
\* passed since lastRefill and is let through if a token is left
Allow(key) ==
  /\ limiter.rate > 0
  /\ Len(allowed[key]) < MaxCalls
  /\ LET b == limiter.buckets[key]
         r == Refilled(b)
     IN IF ~b.present
          THEN /\ limiter' = [limiter EXCEPT !.buckets[key] =
                                [present |-> TRUE, tokens |-> limiter.rate - 1,
                                 lastRefill |-> now]]
               /\ allowed' = [allowed EXCEPT ![key] = Append(@, now)]
          ELSE IF r.tokens > 0
                 THEN /\ limiter' = [limiter EXCEPT !.buckets[key] =
                                       [r EXCEPT !.tokens = r.tokens - 1]]
                      /\ allowed' = [allowed EXCEPT ![key] = Append(@, now)]
                 ELSE /\ limiter' = [limiter EXCEPT !.buckets[key] = r]
                      /\ UNCHANGED allowed
  /\ UNCHANGED <<jobs, now, tz, handlers, loop, leases, runs, ext, csrfTokens,
                 minted, req, consumed, tenant, adder>>

\* the 10-minute sweep: buckets not refilled for more than two windows go
cleanup ==
  /\ limiter.rate > 0
  /\ limiter' = [limiter EXCEPT !.buckets =
                   [k \in Keys |->
                      IF /\ limiter.buckets[k].present
                         /\ now - limiter.buckets[k].lastRefill > 2 * Window
                        THEN NoBucket ELSE limiter.buckets[k]]]
  /\ UNCHANGED <<jobs, now, tz, handlers, loop, leases, runs, ext, csrfTokens,
                 minted, req, consumed, allowed, tenant, adder>>

NextRate ==
  \/ NewRateLimiter
  \/ \E key \in Keys : Allow(key)
  \/ cleanup
  \/ AdvanceWeb

SpecRate == InitMulti /\ [][NextRate]_vars

\* the calls for key that were let through in the window that starts at
\* the instant of call i
AllowedFrom(key, i) ==
  {j \in 1..Len(allowed[key]) : /\ allowed[key][j] >= allowed[key][i]
                                /\ allowed[key][j] < allowed[key][i] + Window}

\* C23: for every key and every interval of length window, at most rate
\* calls of Allow(key) in the interval returned true.
C23_AtMostRatePerWindow ==
  \A key \in Keys : \A i \in 1..Len(allowed[key]) :
    Cardinality(AllowedFrom(key, i)) <= limiter.rate

\* ---------------------------------------------------------------- tenants
\* max_users of the subscription CreateTenant inserts (the column default)
DefaultMaxUsers == 5
\* the users that can be added to the tenant
UserIds == 1..7

\* CreateTenant: one transaction inserts the tenant, its owner's
\* tenant_users row and an active free subscription
CreateTenant ==
  /\ ~tenant.present
  /\ \E owner \in UserIds :
       tenant' = [present |-> TRUE, max_users |-> DefaultMaxUsers,
                  users |-> {owner}]
  /\ UNCHANGED <<jobs, now, tz, handlers, loop, leases, runs, ext, csrfTokens,
                 minted, req, consumed, limiter, allowed, adder>>

\* what CheckUserLimit returns: the COUNT(*) of the tenant's rows against
\* sub.MaxUsers
LimitReached == Cardinality(tenant.users) >= tenant.max_users

\* AddUserToTenant, first statement: CheckUserLimit; ErrSubscriptionLimit
\* ends the call with nothing inserted
CheckUserLimit(a) ==
  /\ tenant.present
  /\ adder[a].pc = "idle"
  /\ \E user \in UserIds :
       adder' = [adder EXCEPT ![a] = IF LimitReached THEN NoAdd
                                      ELSE [pc |-> "checked", user |-> user]]
  /\ UNCHANGED <<jobs, now, tz, handlers, loop, leases, runs, ext, csrfTokens,
                 minted, req, consumed, limiter, allowed, tenant>>

\* AddUserToTenant, second statement: INSERT OR IGNORE INTO tenant_users,
\* whose primary key is (tenant_id, user_id)
InsertTenantUser(a) ==
  /\ adder[a].pc = "checked"
  /\ tenant' = [tenant EXCEPT !.users = @ \cup {adder[a].user}]
  /\ adder' = [adder EXCEPT ![a] = NoAdd]
  /\ UNCHANGED <<jobs, now, tz, handlers, loop, leases, runs, ext, csrfTokens,
                 minted, req, consumed, limiter, allowed>>

NextTenant ==
  \/ CreateTenant
  \/ \E a \in Callers : CheckUserLimit(a)
  \/ \E a \in Callers : InsertTenantUser(a)

\* one tenant and two concurrent AddUserToTenant calls
SpecTenant == InitMulti /\ [][NextTenant]_vars

\* C24: the tenant never has more tenant_users rows than the max_users of
\* its active subscription, and no call gets past the limit check while
\* the count has reached max_users.
C24_UserLimitEnforced ==
  /\ [](Cardinality(tenant.users) <= tenant.max_users)
  /\ [][\A a \in Callers :
          (adder[a].pc = "idle" /\ adder'[a].pc = "checked") =>
             Cardinality(tenant.users) < tenant.max_users]_vars
====
